---- MODULE Spec2Model ----
(***************************************************************************)
(* Model of handle_digital_ingest_trigger.py: the Lambda handler that      *)
(* reads its configuration from SSM Parameter Store and launches one ECS   *)
(* task for an S3 or SNS notification.                                     *)
(*                                                                         *)
(* A Python string is a record [str |-> tokens], where a token is a        *)
(* separator such as "/" or "." or a run of other characters, so that      *)
(* str.split is computed rather than assumed.  A Python dict is a function *)
(* from its keys, a list is a sequence, None is a record of its own.       *)
(*                                                                         *)
(* The AWS services are modelled by what a call can return: SSM answers    *)
(* one get_parameters_by_path call with one page of the parameters, ECS    *)
(* accepts or rejects a run_task call.  Building the boto3 clients,        *)
(* logging and json.dumps are taken not to fail, and an envelope carries   *)
(* at least one record whose entries have the shape the handler indexes.   *)
(***************************************************************************)
EXTENDS Integers, Sequences, FiniteSets, TLC

VARIABLES
    event,      \* the envelope handed to lambda_handler
    store,      \* content of the SSM Parameter Store (a list of parameters)
    ssmFault,   \* where, if anywhere, the configuration fetch fails
    ecsFault,   \* whether the ECS service rejects the run_task call
    pc,         \* position of the invocation in lambda_handler
    config,     \* the local `config`
    fetches,    \* number of get_config calls made by the invocation
    task,       \* arguments of the pending run_task call
    calls,      \* requests sent to ecs_client.run_task, in order
    response,   \* the local `response`
    result,     \* the value lambda_handler returned
    error       \* the exception lambda_handler raised

vars == <<event, store, ssmFault, ecsFault, pc, config, fetches, task, calls,
          response, result, error>>

(***************************** bounds **************************************)
MaxParams == 11     \* parameters stored directly under the configuration path
MaxKeyLen == 3      \* tokens in an S3 object key
MaxRecords == 2     \* records in an envelope

(************************ Python values ************************************)
None == [type |-> "NoneType"]
EmptyDict == <<>>
PyStr(tokens) == [str |-> tokens]
Str(a) == PyStr(<<a>>)

\* dict.get(k) and dict.get(k, default)
GetOr(d, k, default) == IF k \in DOMAIN d THEN d[k] ELSE default
Get(d, k) == GetOr(d, k, None)

\* d[k] = v
DictSet(d, k, v) == [x \in (DOMAIN d) \cup {k} |-> IF x = k THEN v ELSE d[x]]

\* truth value of a dict-or-None value: None and {} are false
Truthy(v) == IF DOMAIN v = {} THEN FALSE ELSE v # None

\* str.split(sep): the list of pieces between the occurrences of sep
RECURSIVE SplitTokens(_, _)
SplitTokens(t, sep) ==
    IF \A i \in 1..Len(t) : t[i] # sep
    THEN <<PyStr(t)>>
    ELSE LET i == CHOOSE i \in 1..Len(t) :
                      t[i] = sep /\ \A j \in 1..(i - 1) : t[j] # sep
         IN  <<PyStr(SubSeq(t, 1, i - 1))>>
                 \o SplitTokens(SubSeq(t, i + 1, Len(t)), sep)

Split(s, sep) == SplitTokens(s.str, sep)

(************************* module constants ********************************)
START_STATUS == Str("START")

\* f"/{ENV}/{APP_CONFIG_PATH}" with ENV=dev, APP_CONFIG_PATH=digital_ingest_trigger
full_config_path == PyStr(<<"/", "dev", "/", "digital_ingest_trigger">>)

(********************** SSM Parameter Store ********************************)
\* GetParametersByPath returns at most this many parameters per call when the
\* request gives no MaxResults; the rest is behind NextToken.
PageLimit == 10

IsPrefix(p, t) == Len(p) <= Len(t) /\ SubSeq(t, 1, Len(p)) = p

\* name is exactly one level below path
IsChild(name, path) ==
    /\ Len(name.str) = Len(path.str) + 2
    /\ IsPrefix(path.str, name.str)
    /\ name.str[Len(path.str) + 1] = "/"
    /\ name.str[Len(path.str) + 2] # "/"

\* name is anywhere below path
IsDescendant(name, path) ==
    /\ Len(name.str) >= Len(path.str) + 2
    /\ IsPrefix(path.str, name.str)
    /\ name.str[Len(path.str) + 1] = "/"

RECURSIVE Filter(_, _, _)
Filter(params, path, recursive) ==
    IF params = <<>> THEN <<>>
    ELSE LET p == Head(params)
             keep == IF recursive THEN IsDescendant(p.Name, path)
                                  ELSE IsChild(p.Name, path)
         IN  (IF keep THEN <<p>> ELSE <<>>)
                 \o Filter(Tail(params), path, recursive)

\* the service's answer to one get_parameters_by_path call without NextToken
GetParametersByPath(st, path, recursive) ==
    LET found == Filter(st, path, recursive)
    IN  IF Len(found) <= PageLimit
        THEN [Parameters |-> found]
        ELSE [Parameters |-> SubSeq(found, 1, PageLimit),
              NextToken |-> Str("page2")]

(***************************** get_config **********************************)
\* one iteration of the for loop
LoadParam(configuration, param) ==
    LET param_path_array == Split(param.Name, "/")
        section_position == Len(param_path_array) - 1
        section_name == param_path_array[section_position + 1]
    IN  DictSet(configuration, section_name, param.Value)

\* the for loop over the first n parameters of the response
RECURSIVE LoadParams(_, _)
LoadParams(params, n) ==
    IF n = 0 THEN EmptyDict
    ELSE LoadParam(LoadParams(params, n - 1), params[n])

QueryByPath(st, ssm_parameter_path) ==
    GetParametersByPath(st, ssm_parameter_path, FALSE)

\* number of parameters the loop has stored when the fetch ends
Loaded(params, fault) ==
    IF fault.at = "loop" /\ fault.done < Len(params) THEN fault.done
    ELSE Len(params)

\* get_config(ssm_parameter_path): the finally clause returns `configuration`
\* whatever happened in the try block
get_config(st, ssm_parameter_path, fault) ==
    IF fault.at \in {"client", "query"} THEN EmptyDict
    ELSE LET param_details == QueryByPath(st, ssm_parameter_path)
             params == GetOr(param_details, "Parameters", <<>>)
         IN  LoadParams(params, Loaded(params, fault))

(******************************* run_task **********************************)

\* variant: the container override is always named ursa_major
run_task_fixed_name(cfg, task_definition, environment) ==
    [cluster |-> Get(cfg, Str("ECS_CLUSTER")),
     launchType |-> Str("FARGATE"),
     networkConfiguration |->
         [awsvpcConfiguration |->
             [subnets |-> <<Get(cfg, Str("ECS_SUBNET"))>>,
              securityGroups |-> <<>>,
              assignPublicIp |-> Str("DISABLED")]],
     taskDefinition |-> task_definition,
     count |-> 1,
     startedBy |-> Str("lambda/digital_ingest_trigger"),
     overrides |->
         [containerOverrides |->
             <<[name |-> Str("ursa_major"), environment |-> environment]>>]]

\* the keyword arguments run_task passes to ecs_client.run_task
run_task(cfg, task_definition, environment) ==
    [cluster |-> Get(cfg, Str("ECS_CLUSTER")),
     launchType |-> Str("FARGATE"),
     networkConfiguration |->
         [awsvpcConfiguration |->
             [subnets |-> <<Get(cfg, Str("ECS_SUBNET"))>>,
              securityGroups |-> <<>>,
              assignPublicIp |-> Str("DISABLED")]],
     taskDefinition |-> task_definition,
     count |-> 1,
     startedBy |-> Str("lambda/digital_ingest_trigger"),
     overrides |->
         [containerOverrides |->
             <<[name |-> task_definition, environment |-> environment]>>]]

\* The ECS side of the call: a request without cluster or subnet is rejected,
\* any other request may be rejected by the service (ecsFault).
EcsAccepts(req, fault) ==
    /\ ~fault
    /\ req.cluster # None
    /\ req.networkConfiguration.awsvpcConfiguration.subnets[1] # None

\* the description of the launched task that the call returns
EcsResponse(req) ==
    [type |-> "dict",
     tasks |-> <<[startedBy |-> req.startedBy,
                  taskDefinition |-> req.taskDefinition,
                  overrides |-> req.overrides]>>,
     failures |-> <<>>]

(***************************** lambda_handler ******************************)
FirstRecord(ev) == ev.Records[1]

IsS3(rec) == Truthy(Get(rec, "s3"))
IsSns(rec) == ~IsS3(rec) /\ Truthy(Get(rec, "Sns"))

ObjectCreatedEvents ==
    {Str("ObjectCreated:Put"), Str("ObjectCreated:CompleteMultipartUpload")}

\* variant: every S3 notification triggers a launch
S3TriggersAlways(event_type) == TRUE

S3Triggers(event_type) == event_type \in ObjectCreatedEvents

\* variant: key.split('.')[-1]
S3PackageIdLast(key) == Split(key, ".")[Len(Split(key, "."))]

\* key.split('.')[0]
S3PackageId(key) == Split(key, ".")[1]

PackageEnvironment(package_id) ==
    <<[name |-> Str("PACKAGE_ID"), value |-> package_id]>>

\* f'Nothing to do for S3 event: {event}' and its SNS counterpart
NothingToDo(prefix, ev) == [type |-> "str", text |-> <<prefix, ev>>]

S3Task(rec) ==
    [task_definition |-> Str("ursa_major"),
     environment |-> PackageEnvironment(S3PackageId(rec.s3.object.key))]

SnsPackageId(attributes) ==
    Get(GetOr(attributes, "package_id", EmptyDict), "Value")

\* variant: a missing requested_status counts as START
SnsStartsByDefault(attributes) ==
    LET status == GetOr(attributes, "requested_status", EmptyDict)
    IN  GetOr(status, "Value", START_STATUS) = START_STATUS

SnsStarts(attributes) ==
    Get(GetOr(attributes, "requested_status", EmptyDict), "Value") = START_STATUS

\* attributes['service']['Value'] raises KeyError unless both keys exist
HasService(attributes) ==
    /\ "service" \in DOMAIN attributes
    /\ "Value" \in DOMAIN attributes["service"]

\* variant: the task definition of the S3 branch is used for SNS too
SnsTaskUrsaMajor(attributes) ==
    [task_definition |-> Str("ursa_major"),
     environment |-> PackageEnvironment(SnsPackageId(attributes))]

SnsTask(attributes) ==
    [task_definition |-> attributes["service"]["Value"],
     environment |-> PackageEnvironment(SnsPackageId(attributes))]

\* json.dumps(response, default=str)
JsonDumps(v) ==
    IF v.type = "str" THEN [json |-> "string", text |-> v.text]
    ELSE [json |-> "object", tasks |-> v.tasks, failures |-> v.failures]

Contains(res, phrase) ==
    /\ res # None
    /\ res.json = "string"
    /\ res.text[1] = phrase

S3Nothing == "Nothing to do for S3 event: "
SnsNothing == "Nothing to do for SNS event: "
UnsureError == Str("Unsure how to parse message")
KeyError == Str("KeyError")
LaunchError == Str("ecs_client.run_task failed")

(******************************** inputs ***********************************)
ParamName(i) ==
    IF i = 1 THEN "ECS_CLUSTER" ELSE IF i = 2 THEN "ECS_SUBNET"
    ELSE "PARAM_" \o ToString(i)

ParamValue(i) ==
    IF i = 1 THEN "default" ELSE IF i = 2 THEN "subnet"
    ELSE "value_" \o ToString(i)

Children(n) ==
    [i \in 1..n |-> [Name |-> PyStr(full_config_path.str \o <<"/", ParamName(i)>>),
                     Value |-> Str(ParamValue(i))]]

\* a parameter two levels below the path, and one of another environment
Nested ==
    [Name |-> PyStr(full_config_path.str \o <<"/", "db", "/", "ECS_CLUSTER">>),
     Value |-> Str("nested")]
Unrelated ==
    [Name |-> PyStr(<<"/", "prod", "/", "digital_ingest_trigger", "/",
                      "ECS_SUBNET">>),
     Value |-> Str("other")]

Extras == {<<>>, <<Nested>>, <<Unrelated>>, <<Nested, Unrelated>>}

Stores == {x \o Children(n) : x \in Extras, n \in 0..MaxParams}
SmallStores == {Children(n) : n \in 0..2}

NoFault == [at |-> "none", done |-> 0]
Faults(st) ==
    {NoFault, [at |-> "client", done |-> 0], [at |-> "query", done |-> 0]}
    \cup {[at |-> "loop", done |-> k] :
             k \in 0..(Len(QueryByPath(st, full_config_path).Parameters) - 1)}

KeyTokens == {"a", "b", "."}
Keys == {PyStr(t) : t \in UNION {[1..k -> KeyTokens] : k \in 1..MaxKeyLen}}

EventNames ==
    ObjectCreatedEvents \cup {Str("ObjectRemoved:Delete")}

S3Records ==
    {[eventName |-> en, s3 |-> [object |-> [key |-> k]]] :
        en \in EventNames, k \in Keys}

Attribute(name, values) ==
    {EmptyDict, name :> [Type |-> "String"]}
    \cup {name :> [Type |-> "String", Value |-> v] : v \in values}

MessageAttributes ==
    {a @@ b @@ c :
        a \in Attribute("package_id", {Str("xyz")}),
        b \in Attribute("requested_status", {START_STATUS, Str("STOP")}),
        c \in Attribute("service", {Str("fornax")})}

SnsRecords == {[Sns |-> [MessageAttributes |-> a]] : a \in MessageAttributes}

PutRecord ==
    [eventName |-> Str("ObjectCreated:Put"),
     s3 |-> [object |-> [key |-> PyStr(<<"abc123", ".", "tif">>)]]]
StartAttributes ==
    [package_id |-> [Type |-> "String", Value |-> Str("xyz")],
     requested_status |-> [Type |-> "String", Value |-> START_STATUS],
     service |-> [Type |-> "String", Value |-> Str("fornax")]]
StartRecord == [Sns |-> [MessageAttributes |-> StartAttributes]]
SqsRecord == [eventSource |-> Str("aws:sqs")]

\* records whose "s3" or "Sns" entry is empty, or that carry both entries
OddRecords ==
    {SqsRecord,
     [s3 |-> EmptyDict, eventName |-> Str("ObjectRemoved:Delete")],
     [Sns |-> EmptyDict],
     [s3 |-> EmptyDict, Sns |-> [MessageAttributes |-> StartAttributes]],
     [eventName |-> Str("ObjectRemoved:Delete"),
      s3 |-> [object |-> [key |-> PyStr(<<"a", ".", "b">>)]],
      Sns |-> [MessageAttributes |-> StartAttributes]]}

FirstRecords == S3Records \cup SnsRecords \cup OddRecords

\* the records after the first
Tails == UNION {[1..k -> {PutRecord, StartRecord}] : k \in 0..(MaxRecords - 1)}

Events == {[Records |-> <<r>> \o t] : r \in FirstRecords, t \in Tails}
IdleRecord ==
    [Sns |-> [MessageAttributes |->
        [requested_status |-> [Type |-> "String", Value |-> Str("STOP")]]]]
FewEvents ==
    {[Records |-> <<r>>] : r \in {PutRecord, StartRecord, IdleRecord, SqsRecord}}

(***************************** the invocation ******************************)
Init ==
    /\ \/ store \in Stores /\ event \in FewEvents
       \/ store \in SmallStores /\ event \in Events
    /\ ssmFault \in Faults(store)
    /\ ecsFault \in BOOLEAN
    /\ pc = "start"
    /\ config = EmptyDict
    /\ fetches = 0
    /\ task = None
    /\ calls = <<>>
    /\ response = None
    /\ result = None
    /\ error = None

\* variant: get_config without its try/except, a failed fetch is raised
GetConfigPropagates ==
    /\ pc = "start"
    /\ fetches' = fetches + 1
    /\ IF ssmFault.at = "none"
       THEN /\ config' = get_config(store, full_config_path, ssmFault)
            /\ pc' = "branch"
            /\ error' = error
       ELSE /\ config' = config
            /\ pc' = "raised"
            /\ error' = Str("SSM error")
    /\ UNCHANGED <<event, store, ssmFault, ecsFault, task, calls, response,
                   result>>

\* config = get_config(full_config_path); ecs_client = boto3.client('ecs', ...)
GetConfig ==
    /\ pc = "start"
    /\ config' = get_config(store, full_config_path, ssmFault)
    /\ fetches' = fetches + 1
    /\ pc' = "branch"
    /\ UNCHANGED <<event, store, ssmFault, ecsFault, task, calls, response,
                   result, error>>

\* if event['Records'][0].get('s3'):
HandleS3 ==
    /\ pc = "branch"
    /\ IsS3(FirstRecord(event))
    /\ LET rec == FirstRecord(event)
           event_type == rec.eventName
       IN  /\ response' = NothingToDo(S3Nothing, event)
           /\ IF S3Triggers(event_type)
              THEN task' = S3Task(rec) /\ pc' = "run_task"
              ELSE task' = task /\ pc' = "return"
    /\ UNCHANGED <<event, store, ssmFault, ecsFault, config, fetches, calls,
                   result, error>>

\* elif event['Records'][0].get('Sns'):
HandleSns ==
    /\ pc = "branch"
    /\ IsSns(FirstRecord(event))
    /\ LET attributes == FirstRecord(event).Sns.MessageAttributes
       IN  /\ response' = NothingToDo(SnsNothing, event)
           /\ IF ~SnsStarts(attributes)
              THEN task' = task /\ pc' = "return" /\ error' = error
              ELSE IF HasService(attributes)
              THEN task' = SnsTask(attributes) /\ pc' = "run_task"
                   /\ error' = error
              ELSE task' = task /\ pc' = "raised" /\ error' = KeyError
    /\ UNCHANGED <<event, store, ssmFault, ecsFault, config, fetches, calls,
                   result>>

\* variant: the else branch answers instead of raising
UnrecognizedReturns ==
    /\ pc = "branch"
    /\ ~IsS3(FirstRecord(event))
    /\ ~IsSns(FirstRecord(event))
    /\ response' = NothingToDo("Nothing to do for event: ", event)
    /\ pc' = "return"
    /\ UNCHANGED <<event, store, ssmFault, ecsFault, config, fetches, task,
                   calls, result, error>>

\* else: raise Exception('Unsure how to parse message')
Unrecognized ==
    /\ pc = "branch"
    /\ ~IsS3(FirstRecord(event))
    /\ ~IsSns(FirstRecord(event))
    /\ pc' = "raised"
    /\ error' = UnsureError
    /\ UNCHANGED <<event, store, ssmFault, ecsFault, config, fetches, task,
                   calls, response, result>>

\* variant: run_task wrapped in try/except that keeps the earlier response
RunTaskSwallow ==
    /\ pc = "run_task"
    /\ LET req == run_task(config, task.task_definition, task.environment)
       IN  /\ calls' = Append(calls, req)
           /\ IF EcsAccepts(req, ecsFault)
              THEN response' = EcsResponse(req)
              ELSE response' = response
    /\ pc' = "return"
    /\ UNCHANGED <<event, store, ssmFault, ecsFault, config, fetches, task,
                   result, error>>

\* response = run_task(ecs_client, config, task_definition, environment)
RunTask ==
    /\ pc = "run_task"
    /\ LET req == run_task(config, task.task_definition, task.environment)
       IN  /\ calls' = Append(calls, req)
           /\ IF EcsAccepts(req, ecsFault)
              THEN response' = EcsResponse(req) /\ pc' = "return"
                   /\ error' = error
              ELSE response' = response /\ pc' = "raised"
                   /\ error' = LaunchError
    /\ UNCHANGED <<event, store, ssmFault, ecsFault, config, fetches, task,
                   result>>

\* logger.info(response); return json.dumps(response, default=str)
Return ==
    /\ pc = "return"
    /\ result' = JsonDumps(response)
    /\ pc' = "returned"
    /\ UNCHANGED <<event, store, ssmFault, ecsFault, config, fetches, task,
                   calls, response, error>>

Next ==
    \/ GetConfig
    \/ HandleS3
    \/ HandleSns
    \/ Unrecognized
    \/ RunTask
    \/ Return

Spec == Init /\ [][Next]_vars

Finished == pc \in {"returned", "raised"}

TypeOK ==
    /\ pc \in {"start", "branch", "run_task", "return", "returned", "raised"}
    /\ fetches \in 0..1
    /\ Len(calls) \in 0..1

(***************************************************************************)
(* Vocabulary of the properties, stated on the envelope itself.            *)
(***************************************************************************)
Rec == event.Records[1]
HasEntry(d, k) == k \in DOMAIN d /\ DOMAIN d[k] # {}
StorageEvent == HasEntry(Rec, "s3")
TopicEvent == ~StorageEvent /\ HasEntry(Rec, "Sns")
Attrs == Rec.Sns.MessageAttributes
HasValue(a, k) == k \in DOMAIN a /\ "Value" \in DOMAIN a[k]
ValueOf(a, k) == IF HasValue(a, k) THEN a[k]["Value"] ELSE None

StorageTrigger ==
    /\ StorageEvent
    /\ \/ Rec.eventName = Str("ObjectCreated:Put")
       \/ Rec.eventName = Str("ObjectCreated:CompleteMultipartUpload")
StorageIdle == StorageEvent /\ ~StorageTrigger
TopicStart == TopicEvent /\ ValueOf(Attrs, "requested_status") = Str("START")
TopicIdle == TopicEvent /\ ~TopicStart
NeitherShape == ~StorageEvent /\ ~TopicEvent
LaunchRow == StorageTrigger \/ TopicStart
\* a launching row whose task definition can be read from the envelope
LaunchableRow == StorageTrigger \/ (TopicStart /\ HasValue(Attrs, "service"))

Environment(req) == req.overrides.containerOverrides[1].environment
FetchFailed == pc # "start" /\ ssmFault.at # "none"

\* v is the part of k before its first ".", all of k when k holds none
BeforeFirstDot(v, k) ==
    /\ Len(v) <= Len(k)
    /\ SubSeq(k, 1, Len(v)) = v
    /\ \A i \in 1..Len(v) : v[i] # "."
    /\ Len(v) = Len(k) \/ k[Len(v) + 1] = "."

\* the entries of the store that are immediate children of the path
ChildEntries == {i \in 1..Len(store) : IsChild(store[i].Name, full_config_path)}
LastSegment(name) ==
    LET t == name.str
        cut == CHOOSE c \in 0..Len(t) :
                   /\ c = 0 \/ t[c] = "/"
                   /\ \A j \in (c + 1)..Len(t) : t[j] # "/"
    IN  PyStr(SubSeq(t, cut + 1, Len(t)))

(***************************************************************************)
(* C1 as stated: an invocation makes at most one launch call, exactly one  *)
(* on the two launching rows of the decision table and none on the others. *)
(***************************************************************************)
C1_OneCallOnEveryLaunchRow ==
    /\ Len(calls) <= 1
    /\ Finished => Len(calls) = (IF LaunchRow THEN 1 ELSE 0)

(***************************************************************************)
(* C1 amended: an invocation makes at most one launch call; when it ends   *)
(* it has made exactly one on a launching row whose task definition is     *)
(* available (always on the storage row, on the topic row when the         *)
(* service attribute has a Value) and none in every other case, whatever   *)
(* the number of records.                                                  *)
(***************************************************************************)
C1_AtMostOneCall ==
    /\ Len(calls) <= 1
    /\ Finished => Len(calls) = (IF LaunchableRow THEN 1 ELSE 0)

C1_Witness ==
    /\ Finished
    /\ Len(event.Records) >= 2
    /\ LaunchableRow
    /\ Len(calls) = 1

(***************************************************************************)
(* C2: a StorageEvent named ObjectCreated:Put or                           *)
(* ObjectCreated:CompleteMultipartUpload launches ursa_major with the      *)
(* single environment entry PACKAGE_ID = the object key up to its first    *)
(* "." (the whole key when it has none).                                   *)
(***************************************************************************)
C2_StorageLaunch ==
    StorageTrigger =>
        /\ Finished => Len(calls) = 1
        /\ \A i \in 1..Len(calls) :
            /\ calls[i].taskDefinition = Str("ursa_major")
            /\ Len(Environment(calls[i])) = 1
            /\ Environment(calls[i])[1].name = Str("PACKAGE_ID")
            /\ DOMAIN Environment(calls[i])[1] = {"name", "value"}
            /\ Environment(calls[i])[1].value # None
            /\ BeforeFirstDot(Environment(calls[i])[1].value.str,
                              Rec.s3.object.key.str)

C2_Witness ==
    /\ StorageTrigger
    /\ Len(calls) = 1
    /\ Cardinality({i \in 1..Len(Rec.s3.object.key.str) :
                       Rec.s3.object.key.str[i] = "."}) >= 2
    /\ Environment(calls[1])[1].value.str # <<>>

(***************************************************************************)
(* C3 as stated: every TopicEvent whose requested_status is START launches *)
(* the task definition named by attributes.service with PACKAGE_ID =       *)
(* attributes.package_id, null when that attribute is absent.              *)
(***************************************************************************)
C3_EveryStartLaunches ==
    TopicStart =>
        /\ Finished => Len(calls) = 1
        /\ \A i \in 1..Len(calls) :
            /\ calls[i].taskDefinition = ValueOf(Attrs, "service")
            /\ Environment(calls[i])[1].value = ValueOf(Attrs, "package_id")

(***************************************************************************)
(* C3 amended: every TopicEvent whose requested_status is START and whose  *)
(* service attribute has a Value launches the task definition named by     *)
(* that Value with PACKAGE_ID = attributes.package_id, null when that      *)
(* attribute is absent; without a service Value the invocation fails with  *)
(* a KeyError and launches nothing.                                        *)
(***************************************************************************)
C3_TopicLaunch ==
    TopicStart =>
        IF HasValue(Attrs, "service")
        THEN /\ Finished => Len(calls) = 1
             /\ \A i \in 1..Len(calls) :
                 /\ calls[i].taskDefinition = Attrs["service"]["Value"]
                 /\ Len(Environment(calls[i])) = 1
                 /\ Environment(calls[i])[1].name = Str("PACKAGE_ID")
                 /\ Environment(calls[i])[1].value = ValueOf(Attrs, "package_id")
        ELSE /\ calls = <<>>
             /\ result = None
             /\ Finished => pc = "raised" /\ error = KeyError

C3_Witness ==
    /\ TopicStart
    /\ HasValue(Attrs, "service")
    /\ ~HasValue(Attrs, "package_id")
    /\ Len(calls) = 1
    /\ Environment(calls[1])[1].value = None

(***************************************************************************)
(* C4: a non-triggering envelope (a StorageEvent with another event name,  *)
(* a TopicEvent whose requested_status is absent or not START) never       *)
(* launches and returns normally a result containing "Nothing to do for S3 *)
(* event" or "Nothing to do for SNS event" respectively.                   *)
(***************************************************************************)
C4_IdleEnvelope ==
    (StorageIdle \/ TopicIdle) =>
        /\ calls = <<>>
        /\ error = None
        /\ pc \in {"start", "branch", "return", "returned"}
        /\ pc = "returned" =>
              IF StorageIdle
              THEN Contains(result, "Nothing to do for S3 event: ")
              ELSE Contains(result, "Nothing to do for SNS event: ")

C4_Witness ==
    /\ TopicIdle
    /\ ~HasValue(Attrs, "requested_status")
    /\ HasValue(Attrs, "service")
    /\ pc = "returned"

C6_FailedFetchIsEmpty ==
    FetchFailed => DOMAIN config = {}

(***************************************************************************)
(* C7 as stated: a successful get_config returns exactly the mapping from  *)
(* the last segment of every immediate child of the path to its value,     *)
(* however many children there are.                                        *)
(***************************************************************************)
C7_AllChildrenReturned ==
    (pc # "start" /\ ssmFault.at = "none") =>
        /\ \A i \in ChildEntries :
            /\ LastSegment(store[i].Name) \in DOMAIN config
            /\ config[LastSegment(store[i].Name)] = store[i].Value
        /\ \A k \in DOMAIN config :
            \E i \in ChildEntries : LastSegment(store[i].Name) = k

(***************************************************************************)
(* C8: a launch call that fails ends the invocation with that failure: no  *)
(* result is returned, the error is not swallowed, and the call is not     *)
(* repeated, so exactly one call has been made.                            *)
(***************************************************************************)
C8_LaunchFailurePropagates ==
    /\ (calls # <<>> /\ ~EcsAccepts(calls[1], ecsFault)) =>
          /\ pc = "raised"
          /\ error = LaunchError
          /\ result = None
          /\ Len(calls) = 1
    /\ (pc = "raised" /\ error = LaunchError) =>
          /\ Len(calls) = 1
          /\ ~EcsAccepts(calls[1], ecsFault)

C8_Witness ==
    /\ pc = "raised"
    /\ error = LaunchError
    /\ ecsFault
    /\ calls[1].cluster # None

(***************************************************************************)
(* C9: every launch request has startedBy "lambda/digital_ingest_trigger", *)
(* count 1, cluster config["ECS_CLUSTER"], config["ECS_SUBNET"] as its     *)
(* only subnet, no security groups, and one container override named like  *)
(* the task definition and carrying the environment passed in.             *)
(***************************************************************************)
C9_LaunchRequestShape ==
    \A i \in 1..Len(calls) :
        /\ calls[i].startedBy = Str("lambda/digital_ingest_trigger")
        /\ calls[i].count = 1
        /\ calls[i].cluster =
              (IF Str("ECS_CLUSTER") \in DOMAIN config
               THEN config[Str("ECS_CLUSTER")] ELSE None)
        /\ calls[i].networkConfiguration.awsvpcConfiguration.subnets =
              <<IF Str("ECS_SUBNET") \in DOMAIN config
                THEN config[Str("ECS_SUBNET")] ELSE None>>
        /\ calls[i].networkConfiguration.awsvpcConfiguration.securityGroups
              = <<>>
        /\ calls[i].taskDefinition = task.task_definition
        /\ Len(calls[i].overrides.containerOverrides) = 1
        /\ calls[i].overrides.containerOverrides[1].name
              = calls[i].taskDefinition
        /\ calls[i].overrides.containerOverrides[1].environment
              = task.environment

C9_Witness ==
    /\ Len(calls) = 1
    /\ TopicStart
    /\ calls[1].taskDefinition = Str("fornax")
    /\ calls[1].cluster = Str("default")
    /\ calls[1].networkConfiguration.awsvpcConfiguration.subnets[1] = None

====
